---- MODULE Spec2Model ----
(***************************************************************************)
(* The tonch licensing API: four variants of one Cloudflare worker         *)
(* (src/src/index.js, src/unnamed/part_000, part_001, part_002) over one   *)
(* D1 table "installations".  A state is the table, the wall clock, the    *)
(* worker's environment and the request just handled with its response.    *)
(*                                                                         *)
(* JavaScript values are records [t, n, s]: t is the type ("undefined",    *)
(* "null", "nan", "inf", "num", "frac", "str", "iso"), n the number, s the *)
(* characters.  A "frac" is the number n / 10^Len(s), s its digits after   *)
(* the point.                                                              *)
(* An "iso" value is the text Date.prototype.toISOString produces for the  *)
(* time n (seconds since the start of the run); other text is a "str".    *)
(* Under Spec a request is handled in one step; under SpecConc two worker   *)
(* invocations run at once and each D1 statement is a step of its own.     *)
(* Of the comments API (src/src/index.ts) the listing route is modelled.   *)
(* The notes column, which no decision reads, is left out.                 *)
(***************************************************************************)
EXTENDS Integers, Sequences, FiniteSets, TLC

VARIABLES variant, env, table, clock, req, resp, flight, comments

vars == <<variant, env, table, clock, req, resp, flight, comments>>

(* ----------------------------- bounds ---------------------------------- *)
\* the clock runs from 0 to MaxClock days
MaxClock == 2
\* the comments table holds up to MaxComments rows
MaxComments == 2

(* ------------------------- program constants --------------------------- *)
\* days * 86400000 ms, counted in seconds: times are whole seconds here
SecPerDay == 86400
DefaultDays == 365
MinDays == 1
MaxDays == 3650
\* the limit and offset of the listings: clampInt(v, min, max, fallback)
MinLimit == 1
InstallsMaxLimit == 500
InstallsDefaultLimit == 200
CommentsMaxLimit == 200
CommentsDefaultLimit == 50
MaxOffset == 1000000
\* LIMIT 300 of part_000 and part_002
FixedLimit == 300

Variants == {"index_js", "part_000", "part_001", "part_002"}

(* --------------------------- JavaScript values ------------------------- *)
JUndefined == [t |-> "undefined", n |-> 0, s |-> <<>>]
JNull == [t |-> "null", n |-> 0, s |-> <<>>]
JNaN == [t |-> "nan", n |-> 0, s |-> <<>>]
JNum(k) == [t |-> "num", n |-> k, s |-> <<>>]
JStr(cs) == [t |-> "str", n |-> 0, s |-> cs]
JInfinity == [t |-> "inf", n |-> 0, s |-> <<>>]
JFrac(k, ds) == [t |-> "frac", n |-> k, s |-> ds]

\* new Date(ms).toISOString(): the ISO text of a time
ToISOString(time) == [t |-> "iso", n |-> time, s |-> <<>>]

\* Date.parse(text) / new Date(text).getTime(): NaN unless the text is ISO
DateParse(v) == IF v.t = "iso" THEN JNum(v.n) ELSE JNaN

\* ToBoolean
Truthy(v) ==
    CASE v.t = "undefined" -> FALSE
      [] v.t = "null" -> FALSE
      [] v.t = "nan" -> FALSE
      [] v.t = "num" -> v.n # 0
      [] v.t = "str" -> v.s # <<>>
      [] OTHER -> TRUE

RECURSIVE TrimLeft(_)
TrimLeft(cs) ==
    IF cs # <<>> /\ Head(cs) = " " THEN TrimLeft(Tail(cs)) ELSE cs

RECURSIVE TrimRight(_)
TrimRight(cs) ==
    IF cs # <<>> /\ cs[Len(cs)] = " "
    THEN TrimRight(SubSeq(cs, 1, Len(cs) - 1))
    ELSE cs

\* String.prototype.trim
Trim(cs) == TrimRight(TrimLeft(cs))

DecimalDigits == <<"0", "1", "2", "3", "4", "5", "6", "7", "8", "9">>

IsDigits(cs) == \A i \in 1..Len(cs) : \E d \in 1..10 : cs[i] = DecimalDigits[d]

\* the value of a run of decimal digits
RECURSIVE DigitsValue(_)
DigitsValue(cs) ==
    IF cs = <<>> THEN 0
    ELSE 10 * DigitsValue(SubSeq(cs, 1, Len(cs) - 1))
         + ((CHOOSE d \in 1..10 : cs[Len(cs)] = DecimalDigits[d]) - 1)

\* Number(text): white space trimmed, "" is 0, then an optional sign and
\* Infinity, digits, or digits with one point; anything else is NaN (no
\* input is written in hexadecimal or with an exponent)
NumberOfText(cs) ==
    LET body == Trim(cs)
        signed == body # <<>> /\ Head(body) \in {"-", "+"}
        sign == IF body # <<>> /\ Head(body) = "-" THEN -1 ELSE 1
        mag == IF signed THEN Tail(body) ELSE body
        dots == {i \in 1..Len(mag) : mag[i] = "."}
        dot == CHOOSE i \in dots : TRUE
        whole == SubSeq(mag, 1, dot - 1)
        frac == SubSeq(mag, dot + 1, Len(mag))
    IN  IF body = <<>> THEN JNum(0)
        ELSE IF mag = <<"Infinity">> THEN JInfinity
        ELSE IF dots = {}
        THEN IF mag # <<>> /\ IsDigits(mag)
             THEN JNum(sign * DigitsValue(mag)) ELSE JNaN
        ELSE IF /\ Cardinality(dots) = 1
                /\ IsDigits(whole) /\ IsDigits(frac)
                /\ whole \o frac # <<>>
        THEN IF DigitsValue(frac) = 0 THEN JNum(sign * DigitsValue(whole))
             ELSE JFrac(sign * DigitsValue(whole \o frac), frac)
        ELSE JNaN

\* Number(v)
ToNumber(v) ==
    CASE v.t = "undefined" -> JNaN
      [] v.t = "null" -> JNum(0)
      [] v.t \in {"num", "frac", "inf"} -> v
      [] v.t = "str" -> NumberOfText(v.s)
      [] OTHER -> JNaN

\* a > b on numbers: false when either side is NaN
NumGt(a, b) == a.t = "num" /\ b.t = "num" /\ a.n > b.n

\* a < b on numbers: false when either side is NaN
NumLt(a, b) == a.t = "num" /\ b.t = "num" /\ a.n < b.n

\* Number.isFinite
IsFinite(v) == v.t \in {"num", "frac"}

RECURSIVE TenTo(_)
TenTo(k) == IF k = 0 THEN 1 ELSE 10 * TenTo(k - 1)

\* Math.floor of a finite number
MathFloor(v) == IF v.t = "frac" THEN v.n \div TenTo(Len(v.s)) ELSE v.n

\* a ?? b
Coalesce(a, b) == IF a.t \in {"undefined", "null"} THEN b ELSE a

\* a || b
OrElse(a, b) == IF Truthy(a) THEN a ELSE b

\* JSON.stringify of a boolean
JsonBool(b) == IF b THEN "true" ELSE "false"

\* the template literal `Bearer ${token}`
BearerOf(token) ==
    JStr(<<"Bearer ", IF token.t = "str" THEN token.s[1] ELSE token.t>>)

(* ------------------------------ inputs --------------------------------- *)
\* machine_id as sent: missing, empty, or an identifier
MachineIdInputs == {JUndefined, JStr(<<>>), JStr(<<"a">>)}

\* days as sent: missing, not numeric, or a number
DaysInputs ==
    {JUndefined, JStr(<<"x">>),
     JNum(0), JNum(MinDays), JNum(MaxDays), JNum(MaxDays + 1)}

\* the Authorization header as sent: none, or a bearer token
AuthInputs ==
    {JNull, JStr(<<"Bearer ", "secret">>), JStr(<<"Bearer ", "undefined">>)}

\* the worker's environment: ADMIN_TOKEN set or not
Envs ==
    {[ADMIN_TOKEN |-> JStr(<<"secret">>)], [ADMIN_TOKEN |-> JUndefined]}

(* --------------------------- the D1 table ------------------------------ *)
\* installations: a function from the machine_ids present to their rows;
\* activated and blocked are INTEGER DEFAULT 0, expires_at is TEXT or NULL
NewRow(first, last, act, blk, exp) ==
    [first_seen_at |-> first, last_seen_at |-> last,
     activated |-> act, blocked |-> blk, expires_at |-> exp]

EmptyTable == [k \in {} |-> NewRow(JNull, JNull, 0, 0, JNull)]

\* SELECT ... WHERE machine_id=? : is there a row
Found(t, k) == k \in DOMAIN t

\* a slip: INSERT OR REPLACE, which writes the whole row anew on a conflict
UpsertTouch_Replace(t, k, first, last) ==
    [x \in DOMAIN t \cup {k} |->
        IF x = k THEN NewRow(first, last, 0, 0, JNull) ELSE t[x]]

\* INSERT ... VALUES (?, ?, ?, 0, 0) ON CONFLICT(machine_id)
\*   DO UPDATE SET last_seen_at=excluded.last_seen_at
UpsertTouch(t, k, first, last) ==
    IF Found(t, k)
    THEN [t EXCEPT ![k].last_seen_at = last]
    ELSE [x \in DOMAIN t \cup {k} |->
            IF x = k THEN NewRow(first, last, 0, 0, JNull) ELSE t[x]]

\* INSERT ... VALUES (?, ?, ?, 1, 0, ?) ON CONFLICT(machine_id) DO UPDATE SET
\*   activated=1, blocked=0, expires_at=..., last_seen_at=...
UpsertGrant(t, k, first, last, exp) ==
    IF Found(t, k)
    THEN [t EXCEPT ![k].activated = 1, ![k].blocked = 0,
                   ![k].expires_at = exp, ![k].last_seen_at = last]
    ELSE [x \in DOMAIN t \cup {k} |->
            IF x = k THEN NewRow(first, last, 1, 0, exp) ELSE t[x]]

\* a slip: the touch also writes expires_at, as NULL
UpdateLastSeen_ClearsExpiry(t, k, last) ==
    IF Found(t, k)
    THEN [t EXCEPT ![k].last_seen_at = last, ![k].expires_at = JNull]
    ELSE t

\* UPDATE installations SET last_seen_at=? WHERE machine_id=?
UpdateLastSeen(t, k, last) ==
    IF Found(t, k) THEN [t EXCEPT ![k].last_seen_at = last] ELSE t

\* a slip: the block also withdraws the grant (activated=0)
UpdateBlocked_ClearsGrant(t, k, blk, last) ==
    IF Found(t, k)
    THEN [t EXCEPT ![k].blocked = blk, ![k].activated = 0,
                   ![k].last_seen_at = last]
    ELSE t

\* UPDATE installations SET blocked=?, last_seen_at=? WHERE machine_id=?
UpdateBlocked(t, k, blk, last) ==
    IF Found(t, k)
    THEN [t EXCEPT ![k].blocked = blk, ![k].last_seen_at = last]
    ELSE t

(* ---------------------------- responses -------------------------------- *)
\* a response: status, error, the fields of a status answer or a grant's,
\* and the items of a listing (none in the other answers)
\* json({ok: false, error}, status)
ErrorResp(status, err) ==
    [status |-> status, error |-> err, activated |-> "-", blocked |-> "-",
     expires_at |-> JUndefined, reason |-> "-", items |-> <<>>]

\* json({ok: true})
OkResp ==
    [status |-> 200, error |-> "", activated |-> "-", blocked |-> "-",
     expires_at |-> JUndefined, reason |-> "-", items |-> <<>>]

\* json({ok: true, activated, blocked, expires_at, reason}); activated and
\* blocked are the JSON text of the value sent
StatusResp(act, blk, exp, reason) ==
    [status |-> 200, error |-> "", activated |-> act, blocked |-> blk,
     expires_at |-> exp, reason |-> reason, items |-> <<>>]

\* json({ok: true, machine_id, expires_at})
GrantResp(exp) ==
    [status |-> 200, error |-> "", activated |-> "-", blocked |-> "-",
     expires_at |-> exp, reason |-> "-", items |-> <<>>]

\* json({ok: true, items}); part_000 names the list "installations"
ListResp(items) ==
    [status |-> 200, error |-> "", activated |-> "-", blocked |-> "-",
     expires_at |-> JUndefined, reason |-> "-", items |-> items]

Result(t, r) == [table |-> t, resp |-> r]

(* ------------------- machine_id as each variant reads it --------------- *)
\* String(body?.machine_id ?? "").trim(), and for the query parameter
\* String(url.searchParams.get("machine_id") || "").trim()
MachineId_index_js(raw) == JStr(Trim(Coalesce(raw, JStr(<<>>)).s))

\* body.machine_id?.trim()
MachineId_part_000(raw) ==
    IF raw.t \in {"undefined", "null"} THEN JUndefined ELSE JStr(Trim(raw.s))

\* url.searchParams.get("machine_id") and body.machine_id, as they come
MachineId_part_001(raw) == raw

\* (body?.machine_id || "").trim()
MachineId_part_002(raw) == JStr(Trim(OrElse(raw, JStr(<<>>)).s))

(* ------------------------ the status decision -------------------------- *)
\* a slip: now >= ms, so a grant is expired at the instant it ends
Expired_index_js_AtExpiry(row, now) ==
    /\ Truthy(row.expires_at)
    /\ DateParse(row.expires_at).t # "nan"
    /\ ~NumLt(JNum(now), DateParse(row.expires_at))

\* if (row.expires_at) { ms = Date.parse(..); if (!isNaN(ms)) expired = now > ms }
Expired_index_js(row, now) ==
    /\ Truthy(row.expires_at)
    /\ DateParse(row.expires_at).t # "nan"
    /\ NumGt(JNum(now), DateParse(row.expires_at))

\* if (expires_at) expired = new Date(expires_at) < new Date()
Expired_part_000(row, now) ==
    /\ Truthy(row.expires_at)
    /\ NumLt(DateParse(row.expires_at), JNum(now))

\* a slip: expired = !(Date.now() <= Date.parse(row.expires_at)), which is
\* true when the text is no date
Expired_part_001_FailClosed(row, now) ==
    /\ Truthy(row.expires_at)
    /\ ~(DateParse(row.expires_at).t = "num"
         /\ now <= DateParse(row.expires_at).n)

\* if (row.expires_at) expired = Date.now() > Date.parse(row.expires_at)
Expired_part_001(row, now) ==
    /\ Truthy(row.expires_at)
    /\ NumGt(JNum(now), DateParse(row.expires_at))

\* a slip: the comparison reversed, now < ms
Expired_part_002_Reversed(row, now) ==
    /\ Truthy(row.expires_at)
    /\ DateParse(row.expires_at).t # "nan"
    /\ NumLt(JNum(now), DateParse(row.expires_at))

\* as in index.js
Expired_part_002(row, now) ==
    /\ Truthy(row.expires_at)
    /\ DateParse(row.expires_at).t # "nan"
    /\ NumGt(JNum(now), DateParse(row.expires_at))

\* blocked ? "blocked" : expired ? "expired" : activated ? "ok" : "not_activated"
ReasonOf(blocked, expired, activated) ==
    IF blocked THEN "blocked"
    ELSE IF expired THEN "expired"
    ELSE IF activated THEN "ok"
    ELSE "not_activated"

\* the response for a row found, index.js
Evaluate_index_js(row, now) ==
    LET expired == Expired_index_js(row, now)
        isActivated == row.activated # 0 /\ ~expired
        isBlocked == row.blocked # 0
    IN  StatusResp(JsonBool(isActivated /\ ~isBlocked), JsonBool(isBlocked),
                   OrElse(row.expires_at, JNull),
                   ReasonOf(isBlocked, expired, isActivated))

\* activated && !expired && !blocked, on the stored integer: the value sent
\* is the stored 0 when activated is 0, else a boolean
ActivatedSent_part_000(row, expired) ==
    IF row.activated = 0 THEN "0"
    ELSE IF expired THEN "false"
    ELSE JsonBool(row.blocked = 0)

\* the response for a row found, part_000
Evaluate_part_000(row, now) ==
    LET expired == Expired_part_000(row, now)
        reason == IF row.blocked # 0 THEN "blocked"
                  ELSE IF expired THEN "expired"
                  ELSE IF row.activated = 0 THEN "not_activated"
                  ELSE "ok"
    IN  StatusResp(ActivatedSent_part_000(row, expired),
                   JsonBool(row.blocked # 0),
                   OrElse(row.expires_at, JNull), reason)

\* the response for a row found, part_001
Evaluate_part_001(row, now) ==
    LET expired == Expired_part_001(row, now)
        activated == row.activated = 1 /\ ~expired
        blocked == row.blocked = 1
    IN  StatusResp(JsonBool(activated /\ ~blocked), JsonBool(blocked),
                   row.expires_at, ReasonOf(blocked, expired, activated))

\* the response for a row found, part_002
Evaluate_part_002(row, now) ==
    LET expired == Expired_part_002(row, now)
        activated == row.activated # 0 /\ ~expired
        blocked == row.blocked # 0
    IN  StatusResp(JsonBool(activated /\ ~blocked), JsonBool(blocked),
                   OrElse(row.expires_at, JNull),
                   ReasonOf(blocked, expired, activated))

\* the response when no row is found
NotFoundResp(reason) == StatusResp("false", "false", JNull, reason)

(* ----------------------------- admin check ----------------------------- *)
\* requireAdmin of index.js: OkResp when the request may proceed
requireAdmin_index_js(token, auth) ==
    IF ~Truthy(token) THEN ErrorResp(500, "ADMIN_TOKEN_missing")
    ELSE IF OrElse(auth, JStr(<<>>)) # BearerOf(token)
         THEN ErrorResp(401, "unauthorized")
    ELSE OkResp

\* requireAdmin of part_000 throws, and the route answers 401
requireAdmin_part_000(token, auth) ==
    IF ~Truthy(token) THEN ErrorResp(401, "unauthorized")
    ELSE IF auth # BearerOf(token) THEN ErrorResp(401, "unauthorized")
    ELSE OkResp

\* if (auth !== `Bearer ${env.ADMIN_TOKEN}`) 401
requireAdmin_part_001(token, auth) ==
    IF auth # BearerOf(token) THEN ErrorResp(401, "unauthorized") ELSE OkResp

\* the admin block of part_002
requireAdmin_part_002(token, auth) ==
    IF ~Truthy(token) THEN ErrorResp(500, "ADMIN_TOKEN_missing")
    ELSE IF OrElse(auth, JStr(<<>>)) # BearerOf(token)
         THEN ErrorResp(401, "unauthorized")
    ELSE OkResp

(* ------------------------ POST /register_install ----------------------- *)
RegisterInstall_index_js(t, raw, now) ==
    LET machine_id == MachineId_index_js(raw)
    IN  IF ~Truthy(machine_id)
        THEN Result(t, ErrorResp(400, "machine_id_required"))
        ELSE Result(UpsertTouch(t, machine_id.s, ToISOString(now),
                                ToISOString(now)), OkResp)

\* activated and blocked are not named by the INSERT: the columns' DEFAULT 0
RegisterInstall_part_000(t, raw, now) ==
    LET machineId == MachineId_part_000(raw)
    IN  IF ~Truthy(machineId)
        THEN Result(t, ErrorResp(400, "machine_id_required"))
        ELSE Result(UpsertTouch(t, machineId.s, ToISOString(now),
                                ToISOString(now)), OkResp)

\* part_001 has no such route: not under /admin/, so the final 404
RegisterInstall_part_001(t, raw, now) == Result(t, ErrorResp(404, "not_found"))

RegisterInstall_part_002(t, raw, now) ==
    LET machine_id == MachineId_part_002(raw)
    IN  IF ~Truthy(machine_id)
        THEN Result(t, ErrorResp(400, "machine_id_required"))
        ELSE Result(UpsertTouch(t, machine_id.s, ToISOString(now),
                                ToISOString(now)), OkResp)

(* ------------------------ GET /activation_status ----------------------- *)
\* SELECT, then the upsert, then the answer from the row selected
ActivationStatus_index_js(t, raw, now) ==
    LET machine_id == MachineId_index_js(raw)
        t2 == UpsertTouch(t, machine_id.s, ToISOString(now), ToISOString(now))
    IN  IF ~Truthy(machine_id)
        THEN Result(t, ErrorResp(400, "machine_id_required"))
        ELSE IF ~Found(t, machine_id.s)
        THEN Result(t2, NotFoundResp("not_activated"))
        ELSE Result(t2, Evaluate_index_js(t[machine_id.s], now))

\* UPDATE last_seen_at, then SELECT, then the answer
ActivationStatus_part_000(t, raw, now) ==
    LET machineId == MachineId_part_000(raw)
        t2 == UpdateLastSeen(t, machineId.s, ToISOString(now))
    IN  IF ~Truthy(machineId)
        THEN Result(t, ErrorResp(400, "machine_id_required"))
        ELSE IF ~Found(t2, machineId.s)
        THEN Result(t2, NotFoundResp("not_registered"))
        ELSE Result(t2, Evaluate_part_000(t2[machineId.s], now))

\* SELECT, the answer computed, then UPDATE last_seen_at
ActivationStatus_part_001(t, raw, now) ==
    LET machine_id == MachineId_part_001(raw)
    IN  IF ~Truthy(machine_id)
        THEN Result(t, ErrorResp(400, "machine_id_required"))
        ELSE IF ~Found(t, machine_id.s)
        THEN Result(t, NotFoundResp("not_registered"))
        ELSE Result(UpdateLastSeen(t, machine_id.s, ToISOString(now)),
                    Evaluate_part_001(t[machine_id.s], now))

\* SELECT, return if absent, then UPDATE last_seen_at, then the answer
ActivationStatus_part_002(t, raw, now) ==
    LET machine_id == MachineId_part_002(raw)
    IN  IF ~Truthy(machine_id)
        THEN Result(t, ErrorResp(400, "machine_id_required"))
        ELSE IF ~Found(t, machine_id.s)
        THEN Result(t, NotFoundResp("not_registered"))
        ELSE Result(UpdateLastSeen(t, machine_id.s, ToISOString(now)),
                    Evaluate_part_002(t[machine_id.s], now))

(* --------------------------- POST /admin/grant ------------------------- *)
\* Number(body?.days ?? 365)
Days_index_js(raw) == ToNumber(Coalesce(raw, JNum(DefaultDays)))

\* Number(body.days) || 365
Days_part_000(raw) == OrElse(ToNumber(raw), JNum(DefaultDays))

\* const { machine_id, days = 365 } = body, then days * 86400000
Days_part_001(raw) ==
    ToNumber(IF raw.t = "undefined" THEN JNum(DefaultDays) ELSE raw)

\* Number(body?.days ?? 365)
Days_part_002(raw) == ToNumber(Coalesce(raw, JNum(DefaultDays)))

\* !Number.isFinite(days) || days < 1 || days > 3650
InvalidDays(days) == ~IsFinite(days) \/ days.n < MinDays \/ days.n > MaxDays

\* new Date(Date.now() + days * 86400000).toISOString()
ExpiresAt(now, days) == ToISOString(now + days.n * SecPerDay)

AdminGrant_index_js(t, token, auth, raw, rawDays, now) ==
    LET a == requireAdmin_index_js(token, auth)
        machine_id == MachineId_index_js(raw)
        days == Days_index_js(rawDays)
        expires_at == ExpiresAt(now, days)
    IN  IF a # OkResp THEN Result(t, a)
        ELSE IF ~Truthy(machine_id)
        THEN Result(t, ErrorResp(400, "machine_id_required"))
        ELSE IF InvalidDays(days)
        THEN Result(t, ErrorResp(400, "invalid_days"))
        ELSE Result(UpsertGrant(t, machine_id.s, ToISOString(now),
                                ToISOString(now), expires_at),
                    GrantResp(expires_at))

\* days is never NaN here, so the test is days < 1 || days > 3650
AdminGrant_part_000(t, token, auth, raw, rawDays, now) ==
    LET a == requireAdmin_part_000(token, auth)
        machineId == MachineId_part_000(raw)
        days == Days_part_000(rawDays)
        expiresAt == ExpiresAt(now, days)
    IN  IF a # OkResp THEN Result(t, a)
        ELSE IF ~Truthy(machineId)
        THEN Result(t, ErrorResp(400, "machine_id_required"))
        ELSE IF days.n < MinDays \/ days.n > MaxDays
        THEN Result(t, ErrorResp(400, "invalid_days"))
        ELSE Result(UpsertGrant(t, machineId.s, ToISOString(now),
                                ToISOString(now), expiresAt),
                    GrantResp(expiresAt))

\* no test of days; toISOString throws on an invalid date, caught as a 500
AdminGrant_part_001(t, token, auth, raw, rawDays, now) ==
    LET a == requireAdmin_part_001(token, auth)
        machine_id == MachineId_part_001(raw)
        days == Days_part_001(rawDays)
        expires_at == ExpiresAt(now, days)
    IN  IF a # OkResp THEN Result(t, a)
        ELSE IF ~Truthy(machine_id)
        THEN Result(t, ErrorResp(400, "machine_id_required"))
        ELSE IF ~IsFinite(days)
        THEN Result(t, ErrorResp(500, "worker_exception"))
        ELSE Result(UpsertGrant(t, machine_id.s, ToISOString(now),
                                ToISOString(now), expires_at),
                    GrantResp(expires_at))

AdminGrant_part_002(t, token, auth, raw, rawDays, now) ==
    LET a == requireAdmin_part_002(token, auth)
        machine_id == MachineId_part_002(raw)
        days == Days_part_002(rawDays)
        expires_at == ExpiresAt(now, days)
    IN  IF a # OkResp THEN Result(t, a)
        ELSE IF ~Truthy(machine_id)
        THEN Result(t, ErrorResp(400, "machine_id_required"))
        ELSE IF InvalidDays(days)
        THEN Result(t, ErrorResp(400, "invalid_days"))
        ELSE Result(UpsertGrant(t, machine_id.s, ToISOString(now),
                                ToISOString(now), expires_at),
                    GrantResp(expires_at))

(* --------------------------- POST /admin/block ------------------------- *)
\* no such route in index.js: the admin check, then the final 404
AdminBlock_index_js(t, token, auth, raw, blocked, now) ==
    LET a == requireAdmin_index_js(token, auth)
    IN  IF a # OkResp THEN Result(t, a)
        ELSE Result(t, ErrorResp(404, "not_found"))

\* a plain UPDATE, answered ok whether or not a row matched
AdminBlock_part_000(t, token, auth, raw, blocked, now) ==
    LET a == requireAdmin_part_000(token, auth)
        machineId == MachineId_part_000(raw)
    IN  IF a # OkResp THEN Result(t, a)
        ELSE IF ~Truthy(machineId)
        THEN Result(t, ErrorResp(400, "machine_id_required"))
        ELSE Result(UpdateBlocked(t, machineId.s, IF blocked THEN 1 ELSE 0,
                                  ToISOString(now)), OkResp)

AdminBlock_part_001(t, token, auth, raw, blocked, now) ==
    LET a == requireAdmin_part_001(token, auth)
    IN  IF a # OkResp THEN Result(t, a)
        ELSE Result(t, ErrorResp(404, "not_found"))

AdminBlock_part_002(t, token, auth, raw, blocked, now) ==
    LET a == requireAdmin_part_002(token, auth)
    IN  IF a # OkResp THEN Result(t, a)
        ELSE Result(t, ErrorResp(404, "not_found"))

(* ------------------------------ listings ------------------------------ *)
Min(a, b) == IF a < b THEN a ELSE b

Max(a, b) == IF a > b THEN a ELSE b

\* clampInt of index.js and of index.ts
clampInt(v, min, max, fallback) ==
    LET n == ToNumber(v)
    IN  IF ~IsFinite(n) THEN fallback
        ELSE LET i == MathFloor(n)
             IN  Max(min, Min(max, i))

\* LIMIT ? OFFSET ? on the rows in order
LimitOffset(rows, limit, offset) ==
    SubSeq(rows, offset + 1, Min(Len(rows), offset + limit))

\* one row of SELECT machine_id, activated, blocked, expires_at,
\* first_seen_at, last_seen_at FROM installations
Item(t, k) ==
    [machine_id |-> k, activated |-> t[k].activated, blocked |-> t[k].blocked,
     expires_at |-> t[k].expires_at, first_seen_at |-> t[k].first_seen_at,
     last_seen_at |-> t[k].last_seen_at]

\* ORDER BY last_seen_at DESC: the orders D1 may return the rows in (rows
\* with equal last_seen_at come in either order)
Orderings(t) ==
    {o \in [1..Cardinality(DOMAIN t) -> DOMAIN t] :
        /\ \A i, j \in DOMAIN o : i # j => o[i] # o[j]
        /\ \A i, j \in DOMAIN o :
              i < j => t[o[i]].last_seen_at.n >= t[o[j]].last_seen_at.n}

\* the rows in the order o
Rows(t, o) == [i \in DOMAIN o |-> Item(t, o[i])]

\* GET /admin/installs?limit=&offset=
AdminInstalls_index_js(t, token, auth, limit, offset, o) ==
    LET a == requireAdmin_index_js(token, auth)
    IN  IF a # OkResp THEN Result(t, a)
        ELSE Result(t, ListResp(LimitOffset(Rows(t, o),
            clampInt(limit, MinLimit, InstallsMaxLimit, InstallsDefaultLimit),
            clampInt(offset, 0, MaxOffset, 0))))

AdminInstalls_part_000(t, token, auth, limit, offset, o) ==
    LET a == requireAdmin_part_000(token, auth)
    IN  IF a # OkResp THEN Result(t, a)
        ELSE Result(t, ListResp(LimitOffset(Rows(t, o), FixedLimit, 0)))

\* no such route in part_001: the admin check, then the final 404
AdminInstalls_part_001(t, token, auth, limit, offset, o) ==
    LET a == requireAdmin_part_001(token, auth)
    IN  IF a # OkResp THEN Result(t, a)
        ELSE Result(t, ErrorResp(404, "not_found"))

AdminInstalls_part_002(t, token, auth, limit, offset, o) ==
    LET a == requireAdmin_part_002(token, auth)
    IN  IF a # OkResp THEN Result(t, a)
        ELSE Result(t, ListResp(LimitOffset(Rows(t, o), FixedLimit, 0)))

\* ORDER BY id DESC on the comments
RECURSIVE IdsDescending(_)
IdsDescending(ids) ==
    IF ids = {} THEN <<>>
    ELSE LET top == CHOOSE i \in ids : \A j \in ids : j <= i
         IN  <<[id |-> top]>> \o IdsDescending(ids \ {top})

\* GET /comments?limit=50&offset=0 of index.ts
GetComments_index_ts(c, limit, offset) ==
    ListResp(LimitOffset(IdsDescending(c),
            clampInt(limit, MinLimit, CommentsMaxLimit, CommentsDefaultLimit),
            clampInt(offset, 0, MaxOffset, 0)))

(* ------------------------------ requests ------------------------------- *)
\* the request just handled: route, machine_id and days as sent, the
\* blocked flag sent ("-" when the route takes none), the header, and the
\* query parameters of a listing
Request(op, raw, rawDays, blocked, auth) ==
    [op |-> op, machine_id |-> raw, days |-> rawDays, blocked |-> blocked,
     auth |-> auth, limit |-> JNull, offset |-> JNull]

\* a listing request: the limit and offset query parameters as
\* url.searchParams.get gives them, null when absent
ListRequest(op, auth, limit, offset) ==
    [op |-> op, machine_id |-> JUndefined, days |-> JUndefined,
     blocked |-> "-", auth |-> auth, limit |-> limit, offset |-> offset]

NoRequest == Request("none", JUndefined, JUndefined, "-", JNull)

NoResponse == ErrorResp(0, "")

(* ------------------------ worker invocations --------------------------- *)
\* the invocations of fetch that may run at the same time
Workers == {"w1", "w2"}

\* the row variable of a handler before its SELECT has answered
NoRow == NewRow(JNull, JNull, 0, 0, JNull)

\* one invocation of fetch: pc is "idle" before the request arrives,
\* "first" while its first statement is on its way to D1, "second" while
\* its second is, "done" when the response is sent; now is the time bound
\* into the statement on its way, expires_at the grant's, found and row
\* what its SELECT answered
Invocation(pc, q, now, exp, found, row) ==
    [pc |-> pc, q |-> q, now |-> now, expires_at |-> exp,
     found |-> found, row |-> row]

Idle == Invocation("idle", NoRequest, 0, JNull, FALSE, NoRow)

\* the invocations, and the table as it was when they began
NoFlight == [start |-> EmptyTable, slot |-> [w \in Workers |-> Idle]]

\* the comments table: the ids of its rows
NoComments == {}

Init ==
    /\ variant \in Variants
    /\ env \in Envs
    /\ table = EmptyTable
    /\ clock = 0
    /\ req = NoRequest
    /\ resp = NoResponse
    /\ flight = NoFlight
    /\ comments = NoComments

\* A request is handled in one step: the table and the response change
\* together, and the clock is read once.
RegisterInstall(raw) ==
    LET r == CASE variant = "index_js" -> RegisterInstall_index_js(table, raw, clock)
               [] variant = "part_000" -> RegisterInstall_part_000(table, raw, clock)
               [] variant = "part_001" -> RegisterInstall_part_001(table, raw, clock)
               [] OTHER -> RegisterInstall_part_002(table, raw, clock)
    IN  /\ table' = r.table
        /\ resp' = r.resp
        /\ req' = Request("register_install", raw, JUndefined, "-", JNull)
        /\ UNCHANGED <<variant, env, clock, flight, comments>>

\* GET /activation_status as the running variant handles it
ActivationStatusOf(t, raw, now) ==
    CASE variant = "index_js" -> ActivationStatus_index_js(t, raw, now)
      [] variant = "part_000" -> ActivationStatus_part_000(t, raw, now)
      [] variant = "part_001" -> ActivationStatus_part_001(t, raw, now)
      [] OTHER -> ActivationStatus_part_002(t, raw, now)

ActivationStatus(raw) ==
    LET r == ActivationStatusOf(table, raw, clock)
    IN  /\ table' = r.table
        /\ resp' = r.resp
        /\ req' = Request("activation_status", raw, JUndefined, "-", JNull)
        /\ UNCHANGED <<variant, env, clock, flight, comments>>

AdminGrant(raw, rawDays, auth) ==
    LET r == CASE variant = "index_js" ->
                    AdminGrant_index_js(table, env.ADMIN_TOKEN, auth, raw, rawDays, clock)
               [] variant = "part_000" ->
                    AdminGrant_part_000(table, env.ADMIN_TOKEN, auth, raw, rawDays, clock)
               [] variant = "part_001" ->
                    AdminGrant_part_001(table, env.ADMIN_TOKEN, auth, raw, rawDays, clock)
               [] OTHER ->
                    AdminGrant_part_002(table, env.ADMIN_TOKEN, auth, raw, rawDays, clock)
    IN  /\ table' = r.table
        /\ resp' = r.resp
        /\ req' = Request("grant", raw, rawDays, "-", auth)
        /\ UNCHANGED <<variant, env, clock, flight, comments>>

AdminBlock(raw, blocked, auth) ==
    LET r == CASE variant = "index_js" ->
                    AdminBlock_index_js(table, env.ADMIN_TOKEN, auth, raw, blocked, clock)
               [] variant = "part_000" ->
                    AdminBlock_part_000(table, env.ADMIN_TOKEN, auth, raw, blocked, clock)
               [] variant = "part_001" ->
                    AdminBlock_part_001(table, env.ADMIN_TOKEN, auth, raw, blocked, clock)
               [] OTHER ->
                    AdminBlock_part_002(table, env.ADMIN_TOKEN, auth, raw, blocked, clock)
    IN  /\ table' = r.table
        /\ resp' = r.resp
        /\ req' = Request("block", raw, JUndefined, JsonBool(blocked), auth)
        /\ UNCHANGED <<variant, env, clock, flight, comments>>

\* GET /admin/installs as the running variant handles it, D1 returning
\* the rows in the order o
AdminInstallsOf(t, token, auth, limit, offset, o) ==
    CASE variant = "index_js" -> AdminInstalls_index_js(t, token, auth, limit, offset, o)
      [] variant = "part_000" -> AdminInstalls_part_000(t, token, auth, limit, offset, o)
      [] variant = "part_001" -> AdminInstalls_part_001(t, token, auth, limit, offset, o)
      [] OTHER -> AdminInstalls_part_002(t, token, auth, limit, offset, o)

AdminInstalls(auth, limit, offset) ==
    /\ \E o \in Orderings(table) :
          resp' = AdminInstallsOf(table, env.ADMIN_TOKEN, auth, limit, offset, o).resp
    /\ req' = ListRequest("installs", auth, limit, offset)
    /\ UNCHANGED <<variant, env, table, clock, flight, comments>>

\* the comments worker: it has no variants and does not use the table
GetComments(limit, offset) ==
    /\ resp' = GetComments_index_ts(comments, limit, offset)
    /\ req' = ListRequest("comments", JNull, limit, offset)
    /\ UNCHANGED <<variant, env, table, clock, flight, comments>>

\* a day passes between requests
Tick ==
    /\ clock < MaxClock * SecPerDay
    /\ clock' = clock + SecPerDay
    /\ req' = NoRequest
    /\ resp' = NoResponse
    /\ UNCHANGED <<variant, env, table, flight, comments>>

Next ==
    \/ \E raw \in MachineIdInputs : RegisterInstall(raw)
    \/ \E raw \in MachineIdInputs : ActivationStatus(raw)
    \/ \E raw \in MachineIdInputs, d \in DaysInputs, auth \in AuthInputs :
          AdminGrant(raw, d, auth)
    \/ \E raw \in MachineIdInputs, b \in BOOLEAN, auth \in AuthInputs :
          AdminBlock(raw, b, auth)
    \/ \E auth \in AuthInputs : AdminInstalls(auth, JNull, JNull)
    \/ Tick

Spec == Init /\ [][Next]_vars

(* ------------- the status decision on any stored row ------------------- *)
\* expires_at as a row may hold it: NULL, text that is no date (empty or
\* not), or a date
EvalExpires ==
    {JNull, JStr(<<>>), JStr(<<"x">>)}
        \cup {ToISOString(d * SecPerDay) : d \in 0..MaxClock}

\* the rows the columns admit for one machine
EvalRows ==
    {NewRow(ToISOString(0), ToISOString(0), a, b, e) :
        a \in {0, 1}, b \in {0, 1}, e \in EvalExpires}

\* any table over the machine "a", at any time
InitEval ==
    /\ variant \in Variants
    /\ env \in Envs
    /\ table \in {EmptyTable} \cup {[k \in {<<"a">>} |-> r] : r \in EvalRows}
    /\ clock \in {d * SecPerDay : d \in 0..MaxClock}
    /\ req = NoRequest
    /\ resp = NoResponse
    /\ flight = NoFlight
    /\ comments = NoComments

NextEval == \E raw \in MachineIdInputs : ActivationStatus(raw)

SpecEval == InitEval /\ [][NextEval]_vars

(* ------------------------- reading a state ----------------------------- *)
\* machine_id as the running variant reads it
MachineIdOf(raw) ==
    CASE variant = "index_js" -> MachineId_index_js(raw)
      [] variant = "part_000" -> MachineId_part_000(raw)
      [] variant = "part_001" -> MachineId_part_001(raw)
      [] OTHER -> MachineId_part_002(raw)

\* the key of the row a request names
KeyOf(q) == MachineIdOf(q.machine_id).s

\* the request just handled was a status query, answered, and the machine's
\* row is in the table (a status query changes last_seen_at only, so the
\* row's other columns are the ones the answer was computed from)
StatusAnswered ==
    /\ req.op = "activation_status"
    /\ resp.status = 200
    /\ Found(table, KeyOf(req))

\* expires_at is a date strictly before the time t
Past(exp, t) == exp.t = "iso" /\ exp.n < t

(* ======================== C1: a blocked row ============================ *)
\* C1: a status query on a stored row with blocked=1 answers reason
\* "blocked" and activated=false, whatever the row's activated and
\* expires_at, in every variant.
C1_BlockedAnswersBlocked ==
    (StatusAnswered /\ table[KeyOf(req)].blocked = 1)
        => (resp.reason = "blocked" /\ resp.activated = "false")

(* ======================== C2: an active row ============================ *)
\* C2: a status query on a stored row with activated=1, blocked=0 and
\* expires_at NULL or not before the current time answers reason "ok" and
\* activated=true; and activated=true is answered only for a row that is
\* activated, not blocked and not expired.
C2_ActiveAnswersOk ==
    StatusAnswered =>
        LET row == table[KeyOf(req)]
        IN  /\ (/\ row.activated = 1
                /\ row.blocked = 0
                /\ \/ row.expires_at = JNull
                   \/ row.expires_at.t = "iso" /\ row.expires_at.n >= clock)
               => (resp.reason = "ok" /\ resp.activated = "true")
            /\ resp.activated = "true"
               => (/\ row.activated = 1
                   /\ row.blocked = 0
                   /\ ~Past(row.expires_at, clock))

\* an active row whose expires_at is exactly the current time was answered ok
C2_Witness ==
    /\ StatusAnswered
    /\ table[KeyOf(req)].activated = 1
    /\ table[KeyOf(req)].blocked = 0
    /\ table[KeyOf(req)].expires_at = ToISOString(clock)
    /\ resp.reason = "ok"
    /\ resp.activated = "true"

(* ======================== C3: an expired row =========================== *)
\* C3: a status query on a stored row with activated=1, blocked=0 and an
\* expires_at strictly before the current time answers reason "expired"
\* and activated=false, and sends back the stored expires_at unchanged.
C3_ExpiredAnswersExpired ==
    (/\ StatusAnswered
     /\ table[KeyOf(req)].activated = 1
     /\ table[KeyOf(req)].blocked = 0
     /\ Past(table[KeyOf(req)].expires_at, clock))
        => (/\ resp.reason = "expired"
            /\ resp.activated = "false"
            /\ resp.expires_at = table[KeyOf(req)].expires_at)

\* an active, unblocked row past its expiry was queried
C3_Witness ==
    /\ StatusAnswered
    /\ table[KeyOf(req)].activated = 1
    /\ table[KeyOf(req)].blocked = 0
    /\ Past(table[KeyOf(req)].expires_at, clock)
    /\ resp.reason = "expired"

(* ===================== C4: no row for the machine ====================== *)
\* C4: a status query for a machine_id with no stored row answers reason
\* "not_registered" with activated=false, blocked=false, expires_at=null,
\* in every variant.
C4_AbsentAnswersNotRegistered ==
    [][(/\ req'.op = "activation_status"
        /\ resp'.status = 200
        /\ ~Found(table, KeyOf(req')))
          => resp' = NotFoundResp("not_registered")]_vars

(* ======================== C5: the range of days ======================== *)
\* the header is "Bearer " followed by the configured ADMIN_TOKEN
Authorized(q) ==
    Truthy(env.ADMIN_TOKEN) /\ q.auth = BearerOf(env.ADMIN_TOKEN)

\* C5: an authorized grant with a non-empty machine_id and a number of days
\* outside 1..3650 is rejected as invalid (400 invalid_days) and leaves the
\* table unchanged; with days 1 or 3650 it is accepted. In every variant.
C5_DaysRange ==
    [][(/\ req'.op = "grant"
        /\ Authorized(req')
        /\ Truthy(MachineIdOf(req'.machine_id))
        /\ req'.days.t = "num")
          => IF req'.days.n < MinDays \/ req'.days.n > MaxDays
             THEN /\ resp'.status = 400
                  /\ resp'.error = "invalid_days"
                  /\ table' = table
             ELSE resp'.status = 200]_vars

(* ===================== C6: the effect of a grant ======================= *)
\* C6: after a successful grant(machine_id, days) at time now the row has
\* activated=1, blocked=0, expires_at = now + days*86400 s, last_seen_at =
\* now, and the first_seen_at it had if it existed; and a status query on a
\* row that is activated, not blocked and not past expires_at answers "ok".
C6_GrantEffect ==
    [][/\ (/\ req'.op = "grant"
           /\ resp'.status = 200
           /\ req'.days.t = "num")
          => LET k == KeyOf(req')
             IN  /\ Found(table', k)
                 /\ table'[k].activated = 1
                 /\ table'[k].blocked = 0
                 /\ table'[k].expires_at =
                       ToISOString(clock + req'.days.n * SecPerDay)
                 /\ table'[k].last_seen_at = ToISOString(clock)
                 /\ resp'.expires_at = table'[k].expires_at
                 /\ Found(table, k)
                      => table'[k].first_seen_at = table[k].first_seen_at
       /\ (/\ req'.op = "activation_status"
           /\ resp'.status = 200
           /\ Found(table, KeyOf(req'))
           /\ table[KeyOf(req')].activated = 1
           /\ table[KeyOf(req')].blocked = 0
           /\ table[KeyOf(req')].expires_at.t = "iso"
           /\ table[KeyOf(req')].expires_at.n >= clock)
          => resp'.reason = "ok"]_vars

(* ================== C7: register and status only touch ================= *)
\* C7: on an existing row, a registration ping and a status query set
\* last_seen_at to the current time and change nothing else, in every
\* reachable state: neither resets a grant or a block.
C7_TouchOnly ==
    [][(/\ req'.op \in {"register_install", "activation_status"}
        /\ resp'.status = 200
        /\ Found(table, KeyOf(req')))
          => table' = [table EXCEPT
                         ![KeyOf(req')].last_seen_at = ToISOString(clock)]]_vars

\* a row granted and then blocked earlier was registered again, later than
\* it was first seen, and is still granted and blocked
C7_Witness ==
    /\ req.op = "register_install"
    /\ resp.status = 200
    /\ Found(table, KeyOf(req))
    /\ table[KeyOf(req)].activated = 1
    /\ table[KeyOf(req)].blocked = 1
    /\ table[KeyOf(req)].expires_at.t = "iso"
    /\ table[KeyOf(req)].last_seen_at = ToISOString(clock)
    /\ table[KeyOf(req)].first_seen_at.n < clock

(* ===================== C8: block and unblock =========================== *)
\* C8: a block on an existing row leaves activated and expires_at as they
\* were; setBlocked(true) on a row whose status was "ok" makes it "blocked"
\* with the same expires_at, and setBlocked(false) on a granted row before
\* its expiry makes the status "ok" with the same expires_at.
C8_BlockUnblock ==
    [][(/\ req'.op = "block"
        /\ resp'.status = 200
        /\ Found(table, KeyOf(req')))
          => LET k == KeyOf(req')
                 before == ActivationStatusOf(table, req'.machine_id, clock).resp
                 after == ActivationStatusOf(table', req'.machine_id, clock).resp
             IN  /\ table'[k].activated = table[k].activated
                 /\ table'[k].expires_at = table[k].expires_at
                 /\ (req'.blocked = "true" /\ before.reason = "ok")
                      => (/\ after.reason = "blocked"
                          /\ after.activated = "false"
                          /\ after.expires_at = before.expires_at)
                 /\ (/\ req'.blocked = "false"
                     /\ table[k].activated = 1
                     /\ ~Past(table[k].expires_at, clock))
                      => (/\ after.reason = "ok"
                          /\ after.activated = "true"
                          /\ after.expires_at = table[k].expires_at)]_vars

\* a granted row, not expired, was blocked and keeps its grant
C8_Witness ==
    /\ req.op = "block"
    /\ req.blocked = "true"
    /\ resp.status = 200
    /\ Found(table, KeyOf(req))
    /\ table[KeyOf(req)].activated = 1
    /\ table[KeyOf(req)].blocked = 1
    /\ table[KeyOf(req)].expires_at.t = "iso"
    /\ table[KeyOf(req)].expires_at.n >= clock

(* ================== C9: a block with no row to block =================== *)
\* C9: a setBlocked(machine_id, true) answered as a success leaves a row
\* for machine_id with blocked=1, also when there was none before.
C9_BlockTakesEffect ==
    (req.op = "block" /\ req.blocked = "true" /\ resp.status = 200)
        => (Found(table, KeyOf(req)) /\ table[KeyOf(req)].blocked = 1)

(* ====================== C10: lazy creation ============================= *)
\* C10: the first registration and the first status query for an unknown
\* machine_id create its row, with activated=0 and blocked=0, in every
\* variant.
C10_CreatedOnFirstContact ==
    [][(/\ req'.op \in {"register_install", "activation_status"}
        /\ resp'.status = 200
        /\ ~Found(table, KeyOf(req')))
          => (/\ Found(table', KeyOf(req'))
              /\ table'[KeyOf(req')].activated = 0
              /\ table'[KeyOf(req')].blocked = 0)]_vars

(* ================= C11: expires_at changes only by a grant ============= *)
\* C11: in any step, a row's expires_at differs from what it was (NULL for
\* a row that did not exist) only if the step is a successful grant for
\* that machine_id; an expires_at that was not NULL is not NULL afterwards,
\* and no row disappears.
C11_ExpiresOnlyByGrant ==
    [][/\ DOMAIN table \subseteq DOMAIN table'
       /\ \A k \in DOMAIN table' :
            LET before == IF Found(table, k) THEN table[k].expires_at ELSE JNull
            IN  /\ table'[k].expires_at # before
                     => (/\ req'.op = "grant"
                         /\ resp'.status = 200
                         /\ KeyOf(req') = k)
                /\ before # JNull => table'[k].expires_at # JNull]_vars

\* a row with a grant that has run out was first seen earlier, and a status
\* query on it a day after the expiry still finds the expires_at granted
C11_Witness ==
    /\ StatusAnswered
    /\ resp.reason = "expired"
    /\ table[KeyOf(req)].expires_at.t = "iso"
    /\ table[KeyOf(req)].first_seen_at.n < table[KeyOf(req)].expires_at.n
    /\ table[KeyOf(req)].expires_at.n < clock

(* ================= requests running at the same time =================== *)
\* POST /register_install as the running variant handles it
RegisterInstallOf(t, raw, now) ==
    CASE variant = "index_js" -> RegisterInstall_index_js(t, raw, now)
      [] variant = "part_000" -> RegisterInstall_part_000(t, raw, now)
      [] variant = "part_001" -> RegisterInstall_part_001(t, raw, now)
      [] OTHER -> RegisterInstall_part_002(t, raw, now)

\* POST /admin/grant as the running variant handles it
AdminGrantOf(t, token, auth, raw, rawDays, now) ==
    CASE variant = "index_js" -> AdminGrant_index_js(t, token, auth, raw, rawDays, now)
      [] variant = "part_000" -> AdminGrant_part_000(t, token, auth, raw, rawDays, now)
      [] variant = "part_001" -> AdminGrant_part_001(t, token, auth, raw, rawDays, now)
      [] OTHER -> AdminGrant_part_002(t, token, auth, raw, rawDays, now)

\* POST /admin/block as the running variant handles it
AdminBlockOf(t, token, auth, raw, blocked, now) ==
    CASE variant = "index_js" -> AdminBlock_index_js(t, token, auth, raw, blocked, now)
      [] variant = "part_000" -> AdminBlock_part_000(t, token, auth, raw, blocked, now)
      [] variant = "part_001" -> AdminBlock_part_001(t, token, auth, raw, blocked, now)
      [] OTHER -> AdminBlock_part_002(t, token, auth, raw, blocked, now)

\* the request q handled alone, in one step, on the table t at the time now
Handled(t, q, now) ==
    CASE q.op = "register_install" -> RegisterInstallOf(t, q.machine_id, now)
      [] q.op = "activation_status" -> ActivationStatusOf(t, q.machine_id, now)
      [] q.op = "grant" ->
            AdminGrantOf(t, env.ADMIN_TOKEN, q.auth, q.machine_id, q.days, now)
      [] q.op = "block" ->
            AdminBlockOf(t, env.ADMIN_TOKEN, q.auth, q.machine_id,
                         q.blocked = "true", now)
      [] OTHER -> Result(t, NoResponse)

\* the checks a handler makes before its first statement do not read the
\* table: the request passes them if, handled alone, it is answered 200
Accepted(q) == Handled(EmptyTable, q, 0).resp.status = 200

\* the first statement a handler sends to D1
FirstStatement(q) ==
    CASE q.op = "register_install" -> "upsert_touch"
      [] q.op = "grant" -> "upsert_grant"
      [] q.op = "block" -> "update_blocked"
      [] OTHER -> IF variant = "part_000" THEN "update_seen" ELSE "select"

\* the statement a status handler sends after its first, given what its
\* SELECT answered; "none" when the handler answers without a second one
SecondStatement(q, found) ==
    IF q.op # "activation_status" THEN "none"
    ELSE CASE variant = "index_js" -> "upsert_touch"
           [] variant = "part_000" -> "select"
           [] OTHER -> IF found THEN "update_seen" ELSE "none"

\* a slip: the touch writes back the row its SELECT read, with the new
\* last_seen_at, instead of one UPDATE of the column
Statement_WriteBack(kind, t, i) ==
    LET k == KeyOf(i.q)
        now == ToISOString(i.now)
    IN  CASE kind = "upsert_touch" ->
                IF i.found
                THEN [x \in DOMAIN t \cup {k} |->
                        IF x = k THEN [i.row EXCEPT !.last_seen_at = now]
                        ELSE t[x]]
                ELSE UpsertTouch(t, k, now, now)
          [] kind = "update_seen" ->
                IF i.found /\ Found(t, k)
                THEN [t EXCEPT ![k] = [i.row EXCEPT !.last_seen_at = now]]
                ELSE t
          [] kind = "upsert_grant" -> UpsertGrant(t, k, now, now, i.expires_at)
          [] kind = "update_blocked" ->
                UpdateBlocked(t, k, IF i.q.blocked = "true" THEN 1 ELSE 0, now)
          [] OTHER -> t

\* D1 applies one statement of the invocation i to the table t, with the
\* values bound when the statement was sent
Statement(kind, t, i) ==
    LET k == KeyOf(i.q)
        now == ToISOString(i.now)
    IN  CASE kind = "upsert_touch" -> UpsertTouch(t, k, now, now)
          [] kind = "update_seen" -> UpdateLastSeen(t, k, now)
          [] kind = "upsert_grant" -> UpsertGrant(t, k, now, now, i.expires_at)
          [] kind = "update_blocked" ->
                UpdateBlocked(t, k, IF i.q.blocked = "true" THEN 1 ELSE 0, now)
          [] OTHER -> t

\* the response of the invocation i, sent at the time now; part_001 has
\* computed expired before its UPDATE, the others compute it after
Answer(i, now) ==
    CASE i.q.op = "grant" -> GrantResp(i.expires_at)
      [] i.q.op = "activation_status" ->
            IF ~i.found
            THEN NotFoundResp(IF variant = "index_js" THEN "not_activated"
                              ELSE "not_registered")
            ELSE CASE variant = "index_js" -> Evaluate_index_js(i.row, now)
                   [] variant = "part_000" -> Evaluate_part_000(i.row, now)
                   [] variant = "part_001" -> Evaluate_part_001(i.row, i.now)
                   [] OTHER -> Evaluate_part_002(i.row, now)
      [] OTHER -> OkResp

\* the requests of the concurrent runs: for the machine "a", authorized
ConcRequests ==
    {Request("register_install", JStr(<<"a">>), JUndefined, "-", JNull),
     Request("activation_status", JStr(<<"a">>), JUndefined, "-", JNull),
     Request("grant", JStr(<<"a">>), JNum(MinDays), "-",
             JStr(<<"Bearer ", "secret">>)),
     Request("block", JStr(<<"a">>), JUndefined, "true",
             JStr(<<"Bearer ", "secret">>))}

\* the tables the concurrent runs begin with: empty, the machine registered,
\* the machine granted a day
ConcTables ==
    {EmptyTable,
     [k \in {<<"a">>} |-> NewRow(ToISOString(0), ToISOString(0), 0, 0, JNull)],
     [k \in {<<"a">>} |->
        NewRow(ToISOString(0), ToISOString(0), 1, 0, ToISOString(SecPerDay))]}

InitConc ==
    /\ variant \in Variants
    /\ env = [ADMIN_TOKEN |-> JStr(<<"secret">>)]
    /\ table \in ConcTables
    /\ clock = 0
    /\ req = NoRequest
    /\ resp = NoResponse
    /\ flight = [start |-> table, slot |-> [w \in Workers |-> Idle]]
    /\ comments = NoComments

\* a request arrives: the handler validates it, reads the clock and sends
\* its first statement
Arrive(w, q) ==
    /\ flight.slot[w].pc = "idle"
    /\ Accepted(q)
    /\ flight' = [flight EXCEPT !.slot[w] =
                    Invocation("first", q, clock,
                               IF q.op = "grant"
                               THEN Handled(EmptyTable, q, clock).resp.expires_at
                               ELSE JNull,
                               FALSE, NoRow)]
    /\ UNCHANGED <<variant, env, table, clock, req, resp, comments>>

\* D1 applies the first statement of w; the handler then sends its second
\* statement, reading the clock for it, or answers
First(w) ==
    LET i == flight.slot[w]
        k == KeyOf(i.q)
        kind == FirstStatement(i.q)
        read == IF kind = "select"
                THEN [i EXCEPT !.found = Found(table, k),
                               !.row = IF Found(table, k) THEN table[k] ELSE NoRow,
                               !.now = clock]
                ELSE i
    IN  /\ i.pc = "first"
        /\ table' = Statement(kind, table, i)
        /\ IF SecondStatement(i.q, read.found) = "none"
           THEN /\ flight' = [flight EXCEPT !.slot[w] = [read EXCEPT !.pc = "done"]]
                /\ req' = i.q
                /\ resp' = Answer(read, clock)
           ELSE /\ flight' = [flight EXCEPT !.slot[w] = [read EXCEPT !.pc = "second"]]
                /\ UNCHANGED <<req, resp>>
        /\ UNCHANGED <<variant, env, clock, comments>>

\* D1 applies the second statement of w, and the handler answers
Second(w) ==
    LET i == flight.slot[w]
        k == KeyOf(i.q)
        kind == SecondStatement(i.q, i.found)
        read == IF kind = "select"
                THEN [i EXCEPT !.found = Found(table, k),
                               !.row = IF Found(table, k) THEN table[k] ELSE NoRow]
                ELSE i
    IN  /\ i.pc = "second"
        /\ table' = Statement(kind, table, i)
        /\ flight' = [flight EXCEPT !.slot[w] = [read EXCEPT !.pc = "done"]]
        /\ req' = i.q
        /\ resp' = Answer(read, clock)
        /\ UNCHANGED <<variant, env, clock, comments>>

NextConc ==
    \/ \E w \in Workers, q \in ConcRequests : Arrive(w, q)
    \/ \E w \in Workers : First(w)
    \/ \E w \in Workers : Second(w)
    \/ Tick

SpecConc == InitConc /\ [][NextConc]_vars

(* ============ C12: two requests for one machine at once ================ *)
\* both invocations have answered
BothDone == \A w \in Workers : flight.slot[w].pc = "done"

\* the tables the two requests leave when one is handled wholly before the
\* other, each with the time it bound into its write
SerialOutcomes ==
    LET a == flight.slot["w1"]
        b == flight.slot["w2"]
    IN  {Handled(Handled(flight.start, a.q, a.now).table, b.q, b.now).table,
         Handled(Handled(flight.start, b.q, b.now).table, a.q, a.now).table}

\* the invocation w is between a SELECT that has answered and a write it
\* has sent for the same machine_id
ReadThenWrite(w) ==
    /\ flight.slot[w].pc = "second"
    /\ FirstStatement(flight.slot[w].q) = "select"
    /\ SecondStatement(flight.slot[w].q, flight.slot[w].found)
          \in {"upsert_touch", "update_seen"}

\* what two concurrent requests for one machine_id leave: one of the two
\* serial outcomes, at most one row, which exists if a registration or a
\* grant took part and carries a grant's expires_at if a grant took part
SerialResult ==
    BothDone =>
        /\ table \in SerialOutcomes
        /\ DOMAIN table \subseteq {<<"a">>}
        /\ (\E w \in Workers :
              flight.slot[w].q.op \in {"register_install", "grant"})
              => Found(table, <<"a">>)
        /\ (\E w \in Workers : flight.slot[w].q.op = "grant")
              => /\ table[<<"a">>].activated = 1
                 /\ \E w \in Workers :
                      /\ flight.slot[w].q.op = "grant"
                      /\ table[<<"a">>].expires_at = flight.slot[w].expires_at

\* C12 as stated: no invocation sends a write after a SELECT of its own for
\* the same machine_id, and two concurrent requests for one machine_id
\* leave the row that one of the two serial orders leaves.
C12_NoReadThenWrite ==
    /\ \A w \in Workers : ~ReadThenWrite(w)
    /\ SerialResult

\* C12 amended: every write is one statement whose values do not come from
\* an earlier read (the status query does send a SELECT and then a separate
\* touch), and two concurrent requests for one machine_id, whatever the
\* interleaving of their statements, leave the row that one of the two
\* serial orders leaves.
C12_SerialOutcome ==
    /\ \A w \in Workers :
          ReadThenWrite(w) => flight.slot[w].q.op = "activation_status"
    /\ SerialResult

\* a status query found no row, a registration or grant then created it,
\* the status query's own write came last, and both have answered
C12_Witness ==
    /\ BothDone
    /\ \E w \in Workers :
          /\ flight.slot[w].q.op = "activation_status"
          /\ ~flight.slot[w].found
          /\ req = flight.slot[w].q
    /\ \E w \in Workers : flight.slot[w].q.op \in {"register_install", "grant"}
    /\ flight.start = EmptyTable
    /\ Found(table, <<"a">>)

(* ================ C13: a machine_id that names nothing ================= *)
\* machine_id as sent: missing, empty, or white space only
BlankInputs == {JUndefined, JStr(<<>>), JStr(<<" ">>)}

\* the requests of Spec, each sent with a machine_id that names nothing
NextBlank ==
    \/ \E raw \in BlankInputs : RegisterInstall(raw)
    \/ \E raw \in BlankInputs : ActivationStatus(raw)
    \/ \E raw \in BlankInputs, d \in DaysInputs, auth \in AuthInputs :
          AdminGrant(raw, d, auth)
    \/ \E raw \in BlankInputs, b \in BOOLEAN, auth \in AuthInputs :
          AdminBlock(raw, b, auth)
    \/ Tick

SpecBlank == Init /\ [][NextBlank]_vars

\* the machine_id sent is missing, empty, or white space only
IsBlank(raw) ==
    \/ raw.t \in {"undefined", "null"}
    \/ raw.t = "str" /\ Trim(raw.s) = <<>>

\* C13: a register, status, grant or block request whose machine_id is
\* missing, empty or white space only, sent to a route the variant has (and
\* authorized, for an admin route), is answered 400 machine_id_required and
\* leaves the table as it was.
C13_BlankRejected ==
    [][(/\ req'.op \in {"register_install", "activation_status",
                        "grant", "block"}
        /\ IsBlank(req'.machine_id)
        /\ resp'.status # 404
        /\ req'.op \in {"grant", "block"} => Authorized(req'))
          => (/\ resp'.status = 400
              /\ resp'.error = "machine_id_required"
              /\ table' = table)]_vars

(* ============== C14: an expires_at that is no timestamp ================ *)
\* the stored text is there and Date.parse makes no time of it
Unparsable(exp) == exp.t # "null" /\ DateParse(exp).t = "nan"

\* C14: a status query for a stored row whose expires_at cannot be parsed
\* is answered 200, never with reason "expired", and with reason "ok" and
\* activated=true when the row has activated=1 and blocked=0; in every
\* variant.
C14_UnparsableNotExpired ==
    (/\ req.op = "activation_status"
     /\ Truthy(MachineIdOf(req.machine_id))
     /\ Found(table, KeyOf(req))
     /\ Unparsable(table[KeyOf(req)].expires_at))
        => (/\ resp.status = 200
            /\ resp.reason # "expired"
            /\ (table[KeyOf(req)].activated = 1 /\ table[KeyOf(req)].blocked = 0)
                  => (resp.reason = "ok" /\ resp.activated = "true"))

\* an activated, unblocked row whose expires_at is the text "x" was queried
\* and answered ok
C14_Witness ==
    /\ StatusAnswered
    /\ table[KeyOf(req)].expires_at = JStr(<<"x">>)
    /\ table[KeyOf(req)].activated = 1
    /\ table[KeyOf(req)].blocked = 0
    /\ resp.reason = "ok"
    /\ resp.activated = "true"

(* ================ C15: ok only after a grant =========================== *)
\* C15: a row's activated becomes 1 only in a successful grant for its
\* machine_id, and a status query answers activated=true or reason "ok"
\* only for a row whose activated is 1, so only after such a grant; and a
\* status query on a row that registrations and status queries alone have
\* left (activated=0, blocked=0, expires_at NULL) answers reason
\* "not_activated" with activated=false.
C15_OkOnlyAfterGrant ==
    [][/\ \A k \in DOMAIN table' :
            (/\ table'[k].activated = 1
             /\ ~(Found(table, k) /\ table[k].activated = 1))
               => (/\ req'.op = "grant"
                   /\ resp'.status = 200
                   /\ KeyOf(req') = k)
       /\ (/\ req'.op = "activation_status"
           /\ resp'.status = 200
           /\ (resp'.activated = "true" \/ resp'.reason = "ok"))
          => (/\ Found(table, KeyOf(req'))
              /\ table[KeyOf(req')].activated = 1)
       /\ (/\ req'.op = "activation_status"
           /\ resp'.status = 200
           /\ Found(table, KeyOf(req'))
           /\ table[KeyOf(req')].activated = 0
           /\ table[KeyOf(req')].blocked = 0
           /\ table[KeyOf(req')].expires_at = JNull)
          => (/\ resp'.reason = "not_activated"
              /\ resp'.activated = "false")]_vars

(* ================== C16: the admin routes need the token =============== *)
\* C16: a grant, block or installs request whose Authorization header is
\* not "Bearer " followed by a configured ADMIN_TOKEN leaves the table as
\* it was, is not answered 200 and is sent no rows; so with no ADMIN_TOKEN
\* configured no admin request gets through, whatever its header.
C16_AdminNeedsToken ==
    [][(/\ req'.op \in {"grant", "block", "installs"}
        /\ ~Authorized(req'))
          => (/\ table' = table
              /\ resp'.status # 200
              /\ resp'.items = <<>>)]_vars

(* ============== C17: first_seen_at and last_seen_at ==================== *)
\* C17: in every state, also one reached by overlapping requests for one
\* machine_id, each of which reads the clock before D1 applies its write,
\* every row has first_seen_at <= last_seen_at, and no step makes the
\* last_seen_at of a row earlier than it was.
C17_SeenOrdered ==
    [][\A k \in DOMAIN table' :
         /\ table'[k].first_seen_at.n <= table'[k].last_seen_at.n
         /\ Found(table, k)
              => table'[k].last_seen_at.n >= table[k].last_seen_at.n]_vars

(* ==================== C18: limit and offset ============================ *)
\* the limit and offset parameters as url.searchParams.get gives them:
\* absent, empty, not a number, Infinity, and numbers
LimitInputs ==
    {JNull, JStr(<<>>), JStr(<<"x">>), JStr(<<"Infinity">>),
     JStr(<<"0">>), JStr(<<"2">>), JStr(<<"-", "3">>),
     JStr(<<"2", ".", "7">>), JStr(<<"-", "0", ".", "5">>),
     JStr(<<"9", "9", "9">>)}

OffsetInputs == {JNull, JStr(<<"1">>), JStr(<<"-", "1">>)}

\* installations tables to list: none, one machine, two seen at different
\* times, two seen at the same time
ListTables ==
    {EmptyTable,
     [k \in {<<"a">>} |-> NewRow(ToISOString(0), ToISOString(0), 0, 0, JNull)],
     [k \in {<<"a">>, <<"b">>} |->
        NewRow(ToISOString(0),
               ToISOString(IF k = <<"a">> THEN 0 ELSE SecPerDay), 0, 0, JNull)],
     [k \in {<<"a">>, <<"b">>} |->
        NewRow(ToISOString(0), ToISOString(0), 0, 0, JNull)]}

InitList ==
    /\ variant \in Variants
    /\ env \in Envs
    /\ table \in ListTables
    /\ clock = 0
    /\ req = NoRequest
    /\ resp = NoResponse
    /\ flight = NoFlight
    /\ comments \in {1..n : n \in 0..MaxComments}

NextList ==
    \/ \E limit \in LimitInputs, offset \in OffsetInputs :
          GetComments(limit, offset)
    \/ \E auth \in AuthInputs, limit \in LimitInputs, offset \in OffsetInputs :
          AdminInstalls(auth, limit, offset)

SpecList == InitList /\ [][NextList]_vars

\* the listing just answered used clampInt on its limit parameter
Clamped(q, r) ==
    /\ r.status = 200
    /\ q.op = "comments" \/ (q.op = "installs" /\ variant = "index_js")

\* C18: for the limit of GET /comments (1, 200, 50) and of GET
\* /admin/installs of index.js (1, 500, 200), clampInt gives the fallback
\* when the parameter is absent or not a finite number and otherwise its
\* floor clamped into [min, max], so the result is the fallback or within
\* [min, max]; and a listing with no limit and no offset parameter returns
\* the first 50 comments, or the first 200 installations.
C18_ClampInt ==
    [][Clamped(req', resp') =>
         LET v == req'.limit
             max == IF req'.op = "comments" THEN CommentsMaxLimit
                    ELSE InstallsMaxLimit
             fallback == IF req'.op = "comments" THEN CommentsDefaultLimit
                         ELSE InstallsDefaultLimit
             stored == IF req'.op = "comments" THEN Cardinality(comments)
                       ELSE Cardinality(DOMAIN table)
             r == clampInt(v, MinLimit, max, fallback)
         IN  /\ r = IF v = JNull \/ ~IsFinite(ToNumber(v)) THEN fallback
                    ELSE Max(MinLimit, Min(max, MathFloor(ToNumber(v))))
             /\ r = fallback \/ (MinLimit <= r /\ r <= max)
             /\ (v = JNull /\ req'.offset = JNull)
                  => Len(resp'.items) = Min(fallback, stored)]_vars

====
